---- MODULE Spec2Model ----
(***************************************************************************)
(* A model of pydo's recurring / repeating task engine:                    *)
(*   - the date expression evaluator       (src/pydo/model/date.py)        *)
(*   - the entities and their close        (src/pydo/model/__init__.py,    *)
(*                                          src/pydo/model/task.py)        *)
(*   - the services add_task, do_tasks and rm_tasks (src/pydo/services.py) *)
(*   - the repository they run against     (src/pydo/adapters)             *)
(*                                                                         *)
(* A datetime is an integer: the seconds elapsed since 2000-01-01T00:00.   *)
(* NoDate (-1) stands for Python's None in a datetime attribute, "None"    *)
(* in a string attribute and NoId (0) in an id attribute.  A string that   *)
(* the program parses (a date expression) is a sequence of one-character   *)
(* strings, so that its parsing is computed and not assumed; NoStr stands  *)
(* for None in such an attribute.                                          *)
(***************************************************************************)
EXTENDS Integers, Sequences, FiniteSets, TLC

(***************************************************************************)
(* Python values                                                           *)
(***************************************************************************)
NoDate == 0 - 1
NoId == 0

\* The outcome of a call: a returned value or a raised exception.
Return(v) == [raised |-> "none", value |-> v]
Raise(e) == [raised |-> e, value |-> NoDate]

(***************************************************************************)
(* Strings as sequences of characters                                      *)
(***************************************************************************)
DigitChars == <<"0", "1", "2", "3", "4", "5", "6", "7", "8", "9">>

IsDigit(c) == \E i \in 1..10 : DigitChars[i] = c

DigitValue(c) == (CHOOSE i \in 1..10 : DigitChars[i] = c) - 1

\* re.match(prefix + ".*", s): s starts with prefix.
StartsWith(s, prefix) ==
    /\ Len(s) >= Len(prefix)
    /\ SubSeq(s, 1, Len(prefix)) = prefix

\* str.split(" "): the pieces between single spaces, empty pieces kept.
RECURSIVE SplitFrom(_, _, _)
SplitFrom(s, i, piece) ==
    IF i > Len(s) THEN <<piece>>
    ELSE IF s[i] = " " THEN <<piece>> \o SplitFrom(s, i + 1, <<>>)
    ELSE SplitFrom(s, i + 1, Append(piece, s[i]))

split(s) == SplitFrom(s, 1, <<>>)

\* The length of the longest prefix of s made of digits: the group "value" of
\* (?P<value>[0-9]+)(?P<unit>.*), which matches when it is not empty.
RECURSIVE DigitPrefixLen(_, _)
DigitPrefixLen(s, i) ==
    IF i <= Len(s) /\ IsDigit(s[i]) THEN DigitPrefixLen(s, i + 1) ELSE i - 1

\* int() of a sequence of digits.
RECURSIVE IntOf(_, _)
IntOf(s, n) ==
    IF n = 0 THEN 0 ELSE IntOf(s, n - 1) * 10 + DigitValue(s[n])

(***************************************************************************)
(* The proleptic Gregorian calendar of Python's datetime                   *)
(***************************************************************************)
is_leap(year) == year % 4 = 0 /\ (year % 100 # 0 \/ year % 400 = 0)

days_in_month(year, month) ==
    IF month = 2 THEN (IF is_leap(year) THEN 29 ELSE 28)
    ELSE IF month \in {4, 6, 9, 11} THEN 30 ELSE 31

days_before_year(year) ==
    LET y == year - 1 IN y * 365 + (y \div 4) - (y \div 100) + (y \div 400)

RECURSIVE days_before_month(_, _)
days_before_month(year, month) ==
    IF month = 1 THEN 0
    ELSE days_before_month(year, month - 1) + days_in_month(year, month - 1)

ymd2ord(year, month, day) ==
    days_before_year(year) + days_before_month(year, month) + day

\* The year of an ordinal, by the 400/100/4/1 year cycles.
ord2year(n) ==
    LET n0 == n - 1
        n400 == n0 \div 146097
        r400 == n0 % 146097
        n100 == r400 \div 36524
        r100 == r400 % 36524
        n4 == r100 \div 1461
        r4 == r100 % 1461
        n1 == r4 \div 365
        year == n400 * 400 + 1 + n100 * 100 + n4 * 4 + n1
    IN IF n1 = 4 \/ n100 = 4 THEN year - 1 ELSE year

ord2month(n) ==
    LET year == ord2year(n)
        rest == n - days_before_year(year)
    IN CHOOSE month \in 1..12 :
          /\ days_before_month(year, month) < rest
          /\ rest <= days_before_month(year, month) + days_in_month(year, month)

ord2day(n) ==
    LET year == ord2year(n)
    IN n - days_before_year(year) - days_before_month(year, ord2month(n))

\* datetime <-> (ordinal day, second of the day).  2000-01-01 is ordinal 730120.
toordinal(t) == 730120 + (t \div 86400)

second_of_day(t) == t % 86400

datetime(year, month, day) == (ymd2ord(year, month, day) - 730120) * 86400

\* datetime.weekday(): Monday is 0.
weekday(t) == (toordinal(t) + 6) % 7

(***************************************************************************)
(* dateutil.relativedelta, as date.py uses it                              *)
(***************************************************************************)
\* A variant of the months of a relativedelta that counts 30 days a month.
add_thirty_days(t, months) == t + months * 30 * 86400

\* dt + relativedelta(months = months): the same day of the month `months`
\* months later, or the last day of that month when it has no such day.
add_months(t, months) ==
    LET n == toordinal(t)
        total == ord2year(n) * 12 + (ord2month(n) - 1) + months
        year == total \div 12
        month == (total % 12) + 1
        day == IF ord2day(n) > days_in_month(year, month)
               THEN days_in_month(year, month) ELSE ord2day(n)
    IN datetime(year, month, day) + second_of_day(t)

\* A relativedelta: calendar months (years are twelve of them) and seconds.
relativedelta(months, seconds) == [months |-> months, seconds |-> seconds]

\* dt + date_delta: the calendar part first, then the time part.
add_delta(t, delta) == add_months(t, delta.months) + delta.seconds

(***************************************************************************)
(* The date expression evaluator                                           *)
(***************************************************************************)
\* The next monthday of "rmo".  The function is declared with a leading
\* `self` parameter and called as _next_monthday(value, starting_date), so
\* `months` is bound to the datetime and relativedelta(months = <datetime>)
\* raises TypeError before any date is computed.
next_monthday(self, months) == Raise("TypeError")

\* A variant of _next_weekday that does not move a date that already falls
\* on the weekday.
next_weekday_on_or_after(weekday_number, starting_date) ==
    starting_date + ((weekday_number - weekday(starting_date) + 7) % 7) * 86400

\* relativedelta(day = starting_date.day, weekday = weekday) added to the
\* date, moved one day on when it already falls on that weekday: the first
\* day on or after it that is the weekday.
next_weekday(weekday_number, starting_date) ==
    LET start == IF weekday_number = weekday(starting_date)
                 THEN starting_date + 86400 ELSE starting_date
    IN start + ((weekday_number - weekday(start) + 7) % 7) * 86400

\* The weekday a string names by its first three letters, or -1.
convert_weekday(human_date) ==
    IF StartsWith(human_date, <<"m", "o", "n">>) THEN 0
    ELSE IF StartsWith(human_date, <<"t", "u", "e">>) THEN 1
    ELSE IF StartsWith(human_date, <<"w", "e", "d">>) THEN 2
    ELSE IF StartsWith(human_date, <<"t", "h", "u">>) THEN 3
    ELSE IF StartsWith(human_date, <<"f", "r", "i">>) THEN 4
    ELSE IF StartsWith(human_date, <<"s", "a", "t">>) THEN 5
    ELSE IF StartsWith(human_date, <<"s", "u", "n">>) THEN 6
    ELSE 0 - 1

\* The relativedelta of one element of the modifier.  An element without a
\* leading integer raises ValueError; a unit that is none of the known ones
\* adds nothing.
element_delta(element, starting_date) ==
    LET n == DigitPrefixLen(element, 1)
        value == IntOf(element, n)
        unit == SubSeq(element, n + 1, Len(element))
    IN IF n = 0 THEN Raise("ValueError")
       ELSE IF unit = <<"s">> THEN Return(relativedelta(0, value))
       ELSE IF unit = <<"m">> THEN Return(relativedelta(0, value * 60))
       ELSE IF unit = <<"h">> THEN Return(relativedelta(0, value * 3600))
       ELSE IF unit = <<"d">> THEN Return(relativedelta(0, value * 86400))
       ELSE IF unit = <<"m", "o">> THEN Return(relativedelta(value, 0))
       ELSE IF unit = <<"w">> THEN Return(relativedelta(0, value * 604800))
       ELSE IF unit = <<"y">> THEN Return(relativedelta(value * 12, 0))
       ELSE IF unit = <<"r", "m", "o">> THEN next_monthday(value, starting_date)
       ELSE Return(relativedelta(0, 0))

\* The deltas of the elements, added up from the left; the first element
\* that raises ends the loop.
RECURSIVE sum_deltas(_, _, _, _)
sum_deltas(elements, i, date_delta, starting_date) ==
    IF i > Len(elements) THEN Return(date_delta)
    ELSE LET d == element_delta(elements[i], starting_date)
         IN IF d.raised # "none" THEN d
            ELSE sum_deltas(elements, i + 1,
                     relativedelta(date_delta.months + d.value.months,
                                   date_delta.seconds + d.value.seconds),
                     starting_date)

str2date(modifier, starting_date) ==
    LET total == sum_deltas(split(modifier), 1, relativedelta(0, 0), starting_date)
    IN IF total.raised # "none" THEN total
       ELSE Return(add_delta(starting_date, total.value))

\* [0-9]{4}.[0-9]{2}.[0-9]{2} at the start of the string.
MatchesIsoDate(s) ==
    /\ Len(s) >= 10
    /\ \A i \in {1, 2, 3, 4, 6, 7, 9, 10} : IsDigit(s[i])

\* [0-9]{4}-[0-9]{2}-[0-9]{2}T[0-9]{2}:[0-9]{2} at the start of the string.
MatchesIsoDateTime(s) ==
    /\ Len(s) >= 16
    /\ \A i \in {1, 2, 3, 4, 6, 7, 9, 10, 12, 13, 15, 16} : IsDigit(s[i])
    /\ s[5] = "-" /\ s[8] = "-" /\ s[11] = "T" /\ s[14] = ":"

\* datetime.strptime(s, "%Y-%m-%d") and, with time, "%Y-%m-%dT%H:%M": the
\* whole string has to follow the format and name a day that exists.
strptime(s, with_time) ==
    LET year == IntOf(SubSeq(s, 1, 4), 4)
        month == IntOf(SubSeq(s, 6, 7), 2)
        day == IntOf(SubSeq(s, 9, 10), 2)
        hour == IF with_time THEN IntOf(SubSeq(s, 12, 13), 2) ELSE 0
        minute == IF with_time THEN IntOf(SubSeq(s, 15, 16), 2) ELSE 0
    IN IF /\ Len(s) = (IF with_time THEN 16 ELSE 10)
          /\ s[5] = "-" /\ s[8] = "-"
          /\ year >= 1 /\ month \in 1..12
          /\ day >= 1 /\ day <= days_in_month(year, month)
          /\ hour <= 23 /\ minute <= 59
       THEN Return(datetime(year, month, day) + hour * 3600 + minute * 60)
       ELSE Raise("ValueError")

convert_date(human_date, starting_date) ==
    IF convert_weekday(human_date) >= 0
    THEN Return(next_weekday(convert_weekday(human_date), starting_date))
    ELSE IF MatchesIsoDateTime(human_date) THEN strptime(human_date, TRUE)
    ELSE IF MatchesIsoDate(human_date) THEN strptime(human_date, FALSE)
    ELSE IF \/ StartsWith(human_date, <<"n", "o", "w">>)
            \/ StartsWith(human_date, <<"t", "o", "d", "a", "y">>)
         THEN Return(starting_date)
    ELSE IF StartsWith(human_date, <<"t", "o", "m", "o", "r", "r", "o", "w">>)
         THEN Return(starting_date + 86400)
    ELSE IF StartsWith(human_date, <<"y", "e", "s", "t", "e", "r", "d", "a", "y">>)
         THEN Return(starting_date - 86400)
    ELSE str2date(human_date, starting_date)

(***************************************************************************)
(* Entities                                                                *)
(*                                                                         *)
(* An entity is the __dict__ of the Python object: a function from the     *)
(* attribute names to their values.  The attributes that are only carried  *)
(* along (description, body, estimate, fun, priority, value, wait and      *)
(* willpower) are left out.  `children` holds the ids of the child         *)
(* objects and `parent` the id of the parent object, NoId for None.        *)
(***************************************************************************)
\* Body applied to a value that is computed once.
With(value, Body(_)) == Body(value)

\* None where a string of characters is expected.
NoStr == <<"None">>

\* dict.pop(key) and dict[key] = value.
Pop(dict, key) == [k \in DOMAIN dict \ {key} |-> dict[k]]

Set(dict, key, value) == (key :> value) @@ dict

\* A keyword argument, or its default.
Arg(kwargs, key, default) == IF key \in DOMAIN kwargs THEN kwargs[key] ELSE default

allowed_agile_states == {"backlog", "complete", "doing", "review", "todo"}

\* The keyword parameters of Task.__init__ and those RecurrentTask.__init__ adds.
TaskParams ==
    {"agile", "closed", "created", "due", "parent_id", "project_id", "state",
     "tag_ids", "type"}

RecurrentTaskParams == TaskParams \cup {"recurrence", "recurrence_type"}

\* A variant of the setter of agile that assigns without a check.
agile_setter_unchecked(self, agile_state) ==
    Return([self EXCEPT !["_agile"] = agile_state])

\* The setter of Task.agile: the task after the assignment, or ValueError and
\* the task as it was.
agile_setter(self, agile_state) ==
    IF agile_state # "None" /\ agile_state \notin allowed_agile_states
    THEN [raised |-> "ValueError", value |-> self]
    ELSE Return([self EXCEPT !["_agile"] = agile_state])

\* Entity.__init__(id, description, state, closed, created): the created
\* setter puts the current date for None.
Entity_init(id, state, closed, created, now) ==
    [id |-> id, state |-> state, _closed |-> closed,
     _created |-> IF created = NoDate THEN now ELSE created]

\* Task.__init__: it calls Entity.__init__(id, description, state, created,
\* closed), so `created` lands in Entity's parameter closed and `closed` in
\* its parameter created.  The agile setter raises ValueError.
Task_init(id, kwargs, default_type, now) ==
    LET entity == Entity_init(id, Arg(kwargs, "state", "open"),
                              Arg(kwargs, "created", NoDate),
                              Arg(kwargs, "closed", NoDate), now)
        agile == Arg(kwargs, "agile", "None")
    IN IF ~(DOMAIN kwargs \subseteq RecurrentTaskParams) THEN Raise("TypeError")
       ELSE IF agile # "None" /\ agile \notin allowed_agile_states
       THEN Raise("ValueError")
       ELSE Return(entity @@
                [_agile |-> agile,
                 children |-> <<>>,
                 due |-> Arg(kwargs, "due", NoDate),
                 parent |-> NoId,
                 parent_id |-> Arg(kwargs, "parent_id", NoId),
                 project_id |-> Arg(kwargs, "project_id", "None"),
                 tag_ids |-> Arg(kwargs, "tag_ids", <<>>),
                 type |-> Arg(kwargs, "type", default_type)])

\* Task(id, **kwargs): a keyword that Task.__init__ does not take is a TypeError.
Task(id, kwargs, now) ==
    IF ~(DOMAIN kwargs \subseteq TaskParams) THEN Raise("TypeError")
    ELSE Task_init(id, kwargs, "task", now)

\* A variant of RecurrentTask without the check of due, which the property
\* of the constructor must tell apart.
RecurrentTask_without_due_check(id, kwargs, now) ==
    IF \/ ~(DOMAIN kwargs \subseteq RecurrentTaskParams)
       \/ ~({"recurrence", "recurrence_type"} \subseteq DOMAIN kwargs)
    THEN Raise("TypeError")
    ELSE With(Task_init(id, kwargs, "recurrent_task", now), LAMBDA task :
        IF task.raised # "none" THEN task
        ELSE IF kwargs["recurrence_type"] \notin {"repeating", "recurring"}
        THEN Raise("TaskAttributeError")
        ELSE Return(task.value @@
                 [_recurrence |-> kwargs["recurrence"],
                  _recurrence_type |-> kwargs["recurrence_type"]]))

\* RecurrentTask(id, **kwargs): recurrence and recurrence_type are required
\* parameters; Task.__init__ runs first, then the check of due, then the
\* setters of recurrence and recurrence_type.
RecurrentTask(id, kwargs, now) ==
    IF \/ ~(DOMAIN kwargs \subseteq RecurrentTaskParams)
       \/ ~({"recurrence", "recurrence_type"} \subseteq DOMAIN kwargs)
    THEN Raise("TypeError")
    ELSE With(Task_init(id, kwargs, "recurrent_task", now), LAMBDA task :
        IF task.raised # "none" THEN task
        ELSE IF Arg(kwargs, "due", NoDate) = NoDate THEN Raise("TaskAttributeError")
        ELSE IF kwargs["recurrence_type"] \notin {"repeating", "recurring"}
        THEN Raise("TaskAttributeError")
        ELSE Return(task.value @@
                 [_recurrence |-> kwargs["recurrence"],
                  _recurrence_type |-> kwargs["recurrence_type"]]))

\* isinstance(task, RecurrentTask)
IsRecurrentTask(task) == "_recurrence_type" \in DOMAIN task

\* A variant of Entity.close that does not read close_date.
close_at_now(entity, state, close_date, now) ==
    [entity EXCEPT !["_closed"] = now, !["state"] = state]

\* Entity.close(state, close_date)
close(entity, state, close_date, now) ==
    [entity EXCEPT !["_closed"] = IF close_date = NoDate THEN now ELSE close_date,
                   !["state"] = state]

(***************************************************************************)
(* The recurrence policies and the spawning of children                    *)
(***************************************************************************)
\* A variant of the loop that also stops on a date equal to now.
RECURSIVE recurring_loop_until_now(_, _, _)
recurring_loop_until_now(recurrence, last_due, now) ==
    With(convert_date(recurrence, last_due), LAMBDA next_due :
        IF next_due.raised # "none" THEN next_due
        ELSE IF next_due.value >= now THEN next_due
        ELSE IF next_due.value <= last_due THEN Raise("hangs")
        ELSE recurring_loop_until_now(recurrence, next_due.value, now))

\* A variant without the loop: the recurrence is applied once.
recurring_once(recurrence, last_due, now) == convert_date(recurrence, last_due)

\* The loop of _next_recurring_due.  When an application of the recurrence
\* does not move the date forward and the date is not after now, the loop
\* never ends: the call does not return ("hangs").
RECURSIVE recurring_loop(_, _, _)
recurring_loop(recurrence, last_due, now) ==
    With(convert_date(recurrence, last_due), LAMBDA next_due :
        IF next_due.raised # "none" THEN next_due
        ELSE IF next_due.value > now THEN next_due
        ELSE IF next_due.value <= last_due THEN Raise("hangs")
        ELSE recurring_loop(recurrence, next_due.value, now))

next_recurring_due(self, now) ==
    IF self["_recurrence"] = NoStr THEN Raise("ValueError")
    ELSE recurring_loop(self["_recurrence"], self["due"], now)

\* max(self.children): the entities compare by id.
RECURSIVE max_from(_, _, _)
max_from(children, i, best) ==
    IF i > Len(children) THEN best
    ELSE max_from(children, i + 1, IF children[i] > best THEN children[i] ELSE best)

\* A variant of max(self.children) that takes the first child of the list.
first_child(children) == children[1]

\* A variant of max(self.children) that takes the child with the lowest id.
min_child(children) ==
    CHOOSE c \in {children[i] : i \in DOMAIN children} :
        \A i \in DOMAIN children : c <= children[i]

max_child(children) == max_from(children, 2, children[1])

\* A variant of _next_repeating_due that applies the recurrence to the due
\* date of a parent without children.
next_repeating_due_from_due(self, objects) ==
    IF self["_recurrence"] = NoStr THEN Raise("ValueError")
    ELSE IF Len(self["children"]) = 0
    THEN (IF self["due"] = NoDate THEN Raise("TaskAttributeError")
          ELSE convert_date(self["_recurrence"], self["due"]))
    ELSE LET last_closed == objects[max_from(self["children"], 2,
                                             self["children"][1])]["_closed"]
         IN IF last_closed = NoDate THEN Raise("TypeError")
            ELSE convert_date(self["_recurrence"], last_closed)

\* A variant of _next_repeating_due that does not check the recurrence
\* before it looks at the children.
next_repeating_due_without_recurrence_check(self, objects) ==
    IF Len(self["children"]) = 0
    THEN (IF self["due"] = NoDate THEN Raise("TaskAttributeError")
          ELSE Return(self["due"]))
    ELSE IF self["_recurrence"] = NoStr THEN Raise("ValueError")
    ELSE LET last_closed == objects[max_child(self["children"])]["_closed"]
         IN IF last_closed = NoDate THEN Raise("TypeError")
            ELSE convert_date(self["_recurrence"], last_closed)

\* convert_date(recurrence, None) adds a relativedelta to None: a TypeError.
next_repeating_due(self, objects) ==
    IF self["_recurrence"] = NoStr THEN Raise("ValueError")
    ELSE IF Len(self["children"]) = 0
    THEN (IF self["due"] = NoDate THEN Raise("TaskAttributeError")
          ELSE Return(self["due"]))
    ELSE LET last_closed == objects[max_child(self["children"])]["_closed"]
         IN IF last_closed = NoDate THEN Raise("TypeError")
            ELSE convert_date(self["_recurrence"], last_closed)

\* The "internal attributes to copy": child_attributes[name] takes the
\* value of child_attributes["_" + name], which is then popped; a missing
\* key changes nothing.
CopyInternal(dict, name, internal) ==
    IF internal \in DOMAIN dict THEN Pop(Set(dict, name, dict[internal]), internal)
    ELSE dict

\* A variant of _generate_children_attributes that keeps the type of the
\* parent.
generate_children_attributes_keeping_type(self) ==
    LET own == Set(self, "parent_id", self["id"])
        copied == CopyInternal(CopyInternal(CopyInternal(own,
                      "agile", "_agile"), "closed", "_closed"), "parent", "_parent")
    IN [k \in DOMAIN copied \
             {"_created", "id", "_recurrence_type", "_recurrence", "children",
              "parent"} |-> copied[k]]

generate_children_attributes(self) ==
    LET own == Set(Set(self, "parent_id", self["id"]), "type", "task")
        copied == CopyInternal(CopyInternal(CopyInternal(own,
                      "agile", "_agile"), "closed", "_closed"), "parent", "_parent")
    IN [k \in DOMAIN copied \
             {"_created", "id", "_recurrence_type", "_recurrence", "children",
              "parent"} |-> copied[k]]

\* A variant of breed_children that does not append the child to the
\* children of the parent.
breed_children_without_append(self, children_id, objects, now) ==
    With(IF self["_recurrence_type"] = "recurring"
         THEN next_recurring_due(self, now)
         ELSE next_repeating_due(self, objects), LAMBDA due :
        IF due.raised # "none" THEN due
        ELSE With(Task(children_id,
                       Set(generate_children_attributes(self), "due", due.value),
                       now), LAMBDA child_task :
            IF child_task.raised # "none" THEN child_task
            ELSE Return([child |-> child_task.value, self |-> self])))

\* breed_children(children_id): the child and the parent with the child
\* appended to its children, or the exception raised before that.  children
\* is the backref of the relationship parent: the append sets the parent of
\* the child.
breed_children(self, children_id, objects, now) ==
    With(IF self["_recurrence_type"] = "recurring"
         THEN next_recurring_due(self, now)
         ELSE next_repeating_due(self, objects), LAMBDA due :
        IF due.raised # "none" THEN due
        ELSE With(Task(children_id,
                       Set(generate_children_attributes(self), "due", due.value),
                       now), LAMBDA child_task :
            IF child_task.raised # "none" THEN child_task
            ELSE Return([child |-> [child_task.value EXCEPT !["parent"] = self["id"]],
                         self |-> [self EXCEPT !["children"] =
                                       Append(@, children_id)]])))

(***************************************************************************)
(* The repository and the services                                         *)
(*                                                                         *)
(* A repository is a record: task maps the ids of the stored tasks to the  *)
(* objects, project and tag are the sets of stored project and tag ids,    *)
(* and fulid is the last id that the id generator produced.                *)
(***************************************************************************)
\* fulid.new(last_id): ids are sortable and strictly increasing per call.
fulid_new(last) == last + 1

create_next_id(repo) == fulid_new(repo.fulid)

\* repo.get(Task, id): the stored object; the relationship to the parent is
\* populated when the object is obtained.
get(repo, id) ==
    IF id \notin DOMAIN repo.task THEN Raise("EntityNotFoundError")
    ELSE LET entity == repo.task[id]
         IN Return(IF entity["parent_id"] \in DOMAIN repo.task
                   THEN [entity EXCEPT !["parent"] = entity["parent_id"]]
                   ELSE entity)

\* repo.add(entity) followed by repo.commit().
add(repo, entity) ==
    [repo EXCEPT !.task = (entity["id"] :> entity) @@ @]

set_task_project(repo, task) ==
    IF task["project_id"] # "None"
    THEN [repo EXCEPT !.project = @ \cup {task["project_id"]}]
    ELSE repo

set_task_tags(repo, task) ==
    [repo EXCEPT !.tag = @ \cup {task["tag_ids"][i] : i \in DOMAIN task["tag_ids"]}]

configure_task(repo, task) == set_task_tags(set_task_project(repo, task), task)

\* The outcome of a service: the repository it leaves, the exception it
\* raised ("none" when it returned) and the ids of the children it spawned.
Outcome(repo, raised, spawned) == [repo |-> repo, raised |-> raised, spawned |-> spawned]

\* repo with the id that create_next_id returned as the last id drawn.
drawn(repo, id) == [repo EXCEPT !.fulid = id]

add_simple_task(repo, task_attributes, now) ==
    With(create_next_id(repo), LAMBDA id :
    With(Task(id, task_attributes, now), LAMBDA task :
        IF task.raised # "none" THEN Outcome(drawn(repo, id), task.raised, <<>>)
        ELSE Outcome(add(configure_task(drawn(repo, id), task.value), task.value),
                     "none", <<>>)))

\* The first child is bred once the parent is added and committed.
add_first_child(repo, parent_task, now) ==
    With(create_next_id(repo), LAMBDA children_id :
    With(breed_children(parent_task, children_id, repo.task, now), LAMBDA bred :
        IF bred.raised # "none" THEN Outcome(drawn(repo, children_id), bred.raised, <<>>)
        ELSE Outcome(add(add(drawn(repo, children_id), bred.value.self),
                         bred.value.child), "none", <<children_id>>)))

add_recurrent_task(repo, task_attributes, now) ==
    With(create_next_id(repo), LAMBDA parent_id :
    With(RecurrentTask(parent_id, task_attributes, now), LAMBDA parent_task :
        IF parent_task.raised # "none"
        THEN Outcome(drawn(repo, parent_id), parent_task.raised, <<>>)
        ELSE add_first_child(add(configure_task(drawn(repo, parent_id),
                                                parent_task.value),
                                 parent_task.value),
                             parent_task.value, now)))

add_task(repo, task_attributes, now) ==
    IF Arg(task_attributes, "recurrence_type", "None") \in {"recurring", "repeating"}
    THEN add_recurrent_task(repo, task_attributes, now)
    ELSE add_simple_task(repo, task_attributes, now)

\* A variant of the loop over the children that closes the first child only.
close_first_child(repo, children, i, state, close_date, now) ==
    IF Len(children) = 0 THEN repo
    ELSE add(repo, close(repo.task[children[1]], state, close_date, now))

\* for child in task.children: child.close(state, close_date)
RECURSIVE close_children(_, _, _, _, _, _)
close_children(repo, children, i, state, close_date, now) ==
    IF i > Len(children) THEN repo
    ELSE close_children(add(repo, close(repo.task[children[i]], state, close_date, now)),
                        children, i + 1, state, close_date, now)

\* The end of _close_task for the child of a RecurrentTask: the next child
\* is bred and added.
spawn_next_child(repo, parent, now) ==
    With(create_next_id(repo), LAMBDA children_id :
    With(breed_children(parent, children_id, repo.task, now), LAMBDA bred :
        IF bred.raised # "none" THEN Outcome(drawn(repo, children_id), bred.raised, <<>>)
        ELSE Outcome(add(add(drawn(repo, children_id), bred.value.self),
                         bred.value.child), "none", <<children_id>>)))

\* A variant of the end of _close_task that does not look at delete_parent.
close_related_without_delete_parent(repo, task, state, close_date, delete_parent, now) ==
    IF task["type"] = "recurrent_task"
    THEN Outcome(close_children(repo, task["children"], 1, state, close_date, now),
                 "none", <<>>)
    ELSE IF task["parent"] # NoId
    THEN With(repo.task[task["parent"]], LAMBDA parent :
        IF IsRecurrentTask(parent) THEN spawn_next_child(repo, parent, now)
        ELSE Outcome(repo, "none", <<>>))
    ELSE Outcome(repo, "none", <<>>)

\* _close_task once the close date is converted and the task closed.
close_related(repo, task, state, close_date, delete_parent, now) ==
    IF task["type"] = "recurrent_task"
    THEN Outcome(close_children(repo, task["children"], 1, state, close_date, now),
                 "none", <<>>)
    ELSE IF task["parent"] # NoId
    THEN With(repo.task[task["parent"]], LAMBDA parent :
        IF delete_parent
        THEN Outcome(add(repo, close(parent, state, close_date, now)), "none", <<>>)
        ELSE IF IsRecurrentTask(parent) THEN spawn_next_child(repo, parent, now)
        ELSE Outcome(repo, "none", <<>>))
    ELSE Outcome(repo, "none", <<>>)

\* _close_task on an object obtained from the repository.  The default
\* starting date of convert_date is the date of the import of the module.
close_task(repo, task, state, close_date_str, delete_parent, import_time, now) ==
    With(convert_date(close_date_str, import_time), LAMBDA close_date :
        IF close_date.raised # "none" THEN Outcome(repo, close_date.raised, <<>>)
        ELSE With(close(task, state, close_date.value, now), LAMBDA closed_task :
            close_related(add(repo, closed_task), closed_task, state,
                          close_date.value, delete_parent, now)))

\* sorted(tasks): the tasks are ordered by their ids.
RECURSIVE insert_sorted(_, _)
insert_sorted(sorted, id) ==
    IF sorted = <<>> \/ id >= sorted[Len(sorted)] THEN Append(sorted, id)
    ELSE Append(insert_sorted(SubSeq(sorted, 1, Len(sorted) - 1), id), sorted[Len(sorted)])

RECURSIVE sorted_ids(_, _)
sorted_ids(ids, i) ==
    IF i = 0 THEN <<>> ELSE insert_sorted(sorted_ids(ids, i - 1), ids[i])

\* The characters of the strings that the columns project_id and state hold.
Characters(string) ==
    CASE string = "pydo" -> <<"p", "y", "d", "o">>
      [] string = "open" -> <<"o", "p", "e", "n">>
      [] string = "completed" -> <<"c", "o", "m", "p", "l", "e", "t", "e", "d">>
      [] string = "deleted" -> <<"d", "e", "l", "e", "t", "e", "d">>
      [] string = "frozen" -> <<"f", "r", "o", "z", "e", "n">>

EndsWith(s, suffix) ==
    /\ Len(s) >= Len(suffix)
    /\ SubSeq(s, Len(s) - Len(suffix) + 1, Len(s)) = suffix

\* column LIKE '%value': the column is not null and ends with value.
like(column, value) ==
    /\ column # "None"
    /\ EndsWith(Characters(column), value)

\* The attributes of a filter that are columns of the class Task; getattr
\* raises AttributeError for recurrence and recurrence_type.
MappedAttributes == {"project_id", "state"}

RECURSIVE ascending(_)
ascending(ids) ==
    IF ids = {} THEN <<>>
    ELSE With(CHOOSE id \in ids : \A other \in ids : id <= other, LAMBDA first :
        <<first>> \o ascending(ids \ {first}))

\* repo.msearch(Task, fields): the tasks of every type whose columns all
\* match; the empty sequence stands for None, there is no empty result.
msearch(repo, fields) ==
    IF \E key \in DOMAIN fields : key \notin MappedAttributes THEN <<>>
    ELSE ascending({id \in DOMAIN repo.task :
             \A key \in DOMAIN fields : like(repo.task[id][key], fields[key])})

\* A parsed task filter: task_ids are its ids, task_attributes its other
\* attributes.  Every task of the filter is obtained from the repository
\* before the first one is closed, the tasks of the ids first; the result
\* is a sorted list, also when it is empty.
tasks_from_task_filter(repo, task_filter) ==
    IF \E i \in DOMAIN task_filter.task_ids : task_filter.task_ids[i] \notin DOMAIN repo.task
    THEN Raise("EntityNotFoundError")
    ELSE With(task_filter.task_ids \o
                  (IF DOMAIN task_filter.task_attributes # {}
                   THEN msearch(repo, task_filter.task_attributes) ELSE <<>>),
              LAMBDA tasks :
        Return([tasks |-> sorted_ids(tasks, Len(tasks)),
                repo |-> [repo EXCEPT !.task =
                    [id \in DOMAIN @ |->
                        IF \E i \in DOMAIN tasks : tasks[i] = id
                        THEN get(repo, id).value ELSE @[id]]]]))

\* The loop of _close_tasks: an exception ends it.
RECURSIVE close_loop(_, _, _, _, _, _, _, _)
close_loop(outcome, tasks, i, state, close_date_str, delete_parent, import_time, now) ==
    IF i > Len(tasks) \/ outcome.raised # "none" THEN outcome
    ELSE With(close_task(outcome.repo, outcome.repo.task[tasks[i]], state,
                         close_date_str, delete_parent, import_time, now), LAMBDA step :
        close_loop(Outcome(step.repo, step.raised, outcome.spawned \o step.spawned),
                   tasks, i + 1, state, close_date_str, delete_parent,
                   import_time, now))

close_tasks(repo, task_filter, state, close_date_str, delete_parent, import_time, now) ==
    With(tasks_from_task_filter(repo, task_filter), LAMBDA found :
        IF found.raised # "none" THEN Outcome(repo, found.raised, <<>>)
        ELSE close_loop(Outcome(found.value.repo, "none", <<>>), found.value.tasks, 1,
                        state, close_date_str, delete_parent, import_time, now))

do_tasks(repo, task_filter, complete_date_str, delete_parent, import_time, now) ==
    close_tasks(repo, task_filter, "completed", complete_date_str, delete_parent,
                import_time, now)

rm_tasks(repo, task_filter, complete_date_str, delete_parent, import_time, now) ==
    close_tasks(repo, task_filter, "deleted", complete_date_str, delete_parent,
                import_time, now)

(***************************************************************************)
(* The program: one run in which add_task, do_tasks and rm_tasks are       *)
(* called on a repository while the time passes.                           *)
(***************************************************************************)
VARIABLES
    repository,   \* the stored tasks, projects and tags, and the last id drawn
    now,          \* datetime.now()
    import_time,  \* datetime.now() when the modules were imported
    last          \* the last service call: its arguments and its outcome

vars == <<repository, now, import_time, last>>

\* The largest id drawn (a call that would draw a larger one is left out),
\* the number of days that pass, the longest filter, and the numbers of
\* simple and of recurrent tasks that are added.
MaxId == 4

MaxDays == 1

MaxFilter == 1

MaxSimple == 1

MaxRecurrent == 1

Now0 == datetime(2020, 1, 31)

Due0 == datetime(2020, 1, 30)

EmptyDict == [k \in {} |-> k]

\* The keyword argument `key`, left out when it has its default value.
Kw(key, value, default) == IF value = default THEN EmptyDict ELSE key :> value

\* The attributes that add_task is given: every task is in the project
\* pydo and in the agile state todo, a recurrent task has a due date.
Recurrences == {<<"1", "d">>, <<"1", "r", "m", "o">>}

RecurrenceTypes == {"recurring", "repeating"}

SimpleAttributes == {[agile |-> "todo", project_id |-> "pydo"]}

RecurrentAttributes ==
    {[agile |-> "todo", project_id |-> "pydo", due |-> Due0,
      recurrence |-> recurrence, recurrence_type |-> recurrence_type] :
        recurrence \in Recurrences, recurrence_type \in RecurrenceTypes}

\* The close date that do_tasks and rm_tasks are given: their default.
CloseDateStrs == {<<"n", "o", "w">>}

\* The filters: up to MaxFilter ids, drawn or not, in increasing order
\* (the tasks of a filter are sorted before they are closed).
TaskFilters ==
    {task_filter \in UNION {[1..n -> 1..MaxId] : n \in 1..MaxFilter} :
        \A i \in 1..(Len(task_filter) - 1) : task_filter[i] < task_filter[i + 1]}

\* The ids of the stored tasks that are open.
OpenTasks == {id \in DOMAIN repository.task : repository.task[id]["state"] = "open"}

\* No call yet.  `open` is the set of the tasks that were open when the
\* service was called.
NoCall ==
    [op |-> "none", task_attributes |-> EmptyDict, task_filter |-> <<>>,
     delete_parent |-> FALSE, open |-> {}, raised |-> "none", spawned |-> <<>>]

\* The parsed filter made of task ids.
IdFilter(task_ids) == [task_ids |-> task_ids, task_attributes |-> EmptyDict]

Init ==
    /\ repository = [task |-> EmptyDict, project |-> {}, tag |-> {}, fulid |-> NoId]
    /\ now = Now0
    /\ import_time = Now0
    /\ last = NoCall

\* A day passes.
Tick ==
    /\ now < Now0 + MaxDays * 86400
    /\ now' = now + 86400
    /\ UNCHANGED <<repository, import_time, last>>

AddTask(task_attributes) ==
    /\ \E outcome \in {add_task(repository, task_attributes, now)} :
        /\ outcome.repo.fulid <= MaxId
        /\ repository' = outcome.repo
        /\ last' = [NoCall EXCEPT !.op = "add_task",
                                  !.task_attributes = task_attributes,
                                  !.open = OpenTasks,
                                  !.raised = outcome.raised,
                                  !.spawned = outcome.spawned]
    /\ UNCHANGED <<now, import_time>>

CloseTasks(op, task_filter, close_date_str, delete_parent) ==
    /\ \E outcome \in
           {IF op = "do_tasks"
            THEN do_tasks(repository, IdFilter(task_filter), close_date_str,
                          delete_parent, import_time, now)
            ELSE rm_tasks(repository, IdFilter(task_filter), close_date_str,
                          delete_parent, import_time, now)} :
        /\ outcome.repo.fulid <= MaxId
        /\ repository' = outcome.repo
        /\ last' = [NoCall EXCEPT !.op = op,
                                  !.task_filter = task_filter,
                                  !.delete_parent = delete_parent,
                                  !.open = OpenTasks,
                                  !.raised = outcome.raised,
                                  !.spawned = outcome.spawned]
    /\ UNCHANGED <<now, import_time>>

\* The state frozen is set from outside the services: freeze(id, parent)
\* freezes an open task or, with parent, its parent.
freeze(repo, id, parent) ==
    With(get(repo, id).value, LAMBDA task :
        IF parent /\ task["parent"] # NoId
        THEN add(add(repo, task),
                 [repo.task[task["parent"]] EXCEPT !["state"] = "frozen"])
        ELSE add(repo, [task EXCEPT !["state"] = "frozen"]))

\* freeze is called with parent on the open child of a parent.
Freeze ==
    \E id \in OpenTasks :
        /\ repository.task[id]["parent_id"] # NoId
        /\ repository' = freeze(repository, id, TRUE)
        /\ last' = [NoCall EXCEPT !.op = "freeze", !.task_filter = <<id>>,
                                  !.open = OpenTasks]
        /\ UNCHANGED <<now, import_time>>

\* The stored tasks that are neither parents nor children, and the parents.
SimpleTasks ==
    {id \in DOMAIN repository.task :
        /\ ~IsRecurrentTask(repository.task[id])
        /\ repository.task[id]["parent_id"] = NoId}

RecurrentTasks ==
    {id \in DOMAIN repository.task : IsRecurrentTask(repository.task[id])}

AddSimple ==
    /\ Cardinality(SimpleTasks) < MaxSimple
    /\ \E task_attributes \in SimpleAttributes : AddTask(task_attributes)

AddRecurrent ==
    /\ Cardinality(RecurrentTasks) < MaxRecurrent
    /\ \E task_attributes \in RecurrentAttributes : AddTask(task_attributes)

DoTasks ==
    \E task_filter \in TaskFilters, close_date_str \in CloseDateStrs,
       delete_parent \in BOOLEAN :
        CloseTasks("do_tasks", task_filter, close_date_str, delete_parent)

RmTasks ==
    \E task_filter \in TaskFilters, close_date_str \in CloseDateStrs,
       delete_parent \in BOOLEAN :
        CloseTasks("rm_tasks", task_filter, close_date_str, delete_parent)

Next == Tick \/ AddSimple \/ AddRecurrent \/ DoTasks \/ RmTasks \/ Freeze

Spec == Init /\ [][Next]_vars

(***************************************************************************)
(* Properties of the services                                              *)
(***************************************************************************)
\* The stored tasks.
Stored == repository.task

\* The state that do_tasks and rm_tasks give to the tasks they close.
ClosedAs(op) == IF op = "do_tasks" THEN "completed" ELSE "deleted"

Range(seq) == {seq[i] : i \in DOMAIN seq}

\* Task c is a child of a stored RecurrentTask.
IsChild(c) ==
    /\ c \in DOMAIN Stored
    /\ Stored[c]["parent_id"] \in DOMAIN Stored
    /\ IsRecurrentTask(Stored[Stored[c]["parent_id"]])

\* Task c is the open child with the highest id of its parent.
IsLatestOpenChild(c) ==
    /\ IsChild(c)
    /\ Stored[c]["state"] = "open"
    /\ \A d \in Range(Stored[Stored[c]["parent_id"]]["children"]) : d <= c

\* This step is the call of do_tasks or rm_tasks on task c alone, without
\* delete_parent.
ClosesOnly(c) ==
    /\ now' = now
    /\ last'.op \in {"do_tasks", "rm_tasks"}
    /\ last'.task_filter = <<c>>
    /\ ~last'.delete_parent

\* This step stores exactly one new task, appended to the children of the
\* parent of c, and leaves c closed.
SpawnsOneChild(c) ==
    \E n \in DOMAIN repository'.task \ DOMAIN Stored :
        /\ DOMAIN repository'.task = DOMAIN Stored \cup {n}
        /\ repository'.task[Stored[c]["parent_id"]]["children"] =
               Append(Stored[Stored[c]["parent_id"]]["children"], n)
        /\ repository'.task[c]["state"] = ClosedAs(last'.op)
        /\ repository'.task[c]["_closed"] # NoDate

\* This step stores no new task and leaves the children of the parent of c
\* as they are.
SpawnsNoChild(c) ==
    /\ DOMAIN repository'.task = DOMAIN Stored
    /\ repository'.task[Stored[c]["parent_id"]]["children"] =
           Stored[Stored[c]["parent_id"]]["children"]

\* C4: each time the latest open child of a RecurrentTask that is not frozen
\* is closed by do_tasks or rm_tasks without delete_parent, exactly one new
\* child is appended to the children of the parent and stored, and the closed
\* child stays closed.
C4_ClosingLatestChildSpawnsOne ==
    [][\A c \in DOMAIN Stored :
          (/\ ClosesOnly(c)
           /\ IsLatestOpenChild(c)
           /\ Stored[Stored[c]["parent_id"]]["state"] # "frozen")
          => SpawnsOneChild(c)]_vars

\* C5: when an open child of a frozen RecurrentTask is closed as completed or
\* deleted, no child is spawned: the children of the parent gain no entry.
C5_FrozenParentSpawnsNothing ==
    [][\A c \in DOMAIN Stored :
          (/\ ClosesOnly(c)
           /\ IsChild(c)
           /\ Stored[c]["state"] = "open"
           /\ Stored[Stored[c]["parent_id"]]["state"] = "frozen")
          => SpawnsNoChild(c)]_vars

\* C6: closing a RecurrentTask by do_tasks or rm_tasks leaves each of its
\* children that were open with the state and the closed date of the parent.
C6_ClosingParentClosesOpenChildren ==
    [][\A p \in DOMAIN Stored :
          (/\ now' = now
           /\ last'.op \in {"do_tasks", "rm_tasks"}
           /\ last'.task_filter = <<p>>
           /\ IsRecurrentTask(Stored[p]))
          => /\ repository'.task[p]["state"] = ClosedAs(last'.op)
             /\ repository'.task[p]["_closed"] # NoDate
             /\ \A c \in Range(Stored[p]["children"]) :
                   Stored[c]["state"] = "open"
                   => /\ repository'.task[c]["state"] = repository'.task[p]["state"]
                      /\ repository'.task[c]["_closed"] =
                             repository'.task[p]["_closed"]]_vars

\* A parent with at least two open children has been closed, and the
\* children have its state and its closed date.
C6_Witness ==
    /\ last.op \in {"do_tasks", "rm_tasks"}
    /\ Len(last.task_filter) = 1
    /\ \E p \in DOMAIN Stored :
          /\ last.task_filter = <<p>>
          /\ IsRecurrentTask(Stored[p])
          /\ \E c, d \in Range(Stored[p]["children"]) \cap last.open :
                /\ c # d
                /\ Stored[c]["state"] = Stored[p]["state"]
                /\ Stored[d]["_closed"] = Stored[p]["_closed"]

\* The children that the last call spawned.
Spawned == Range(last.spawned)

\* C8: a child that breed_children returned has neither a recurrence nor a
\* recurrence_type, its type is task, its id is the id that was handed to
\* breed_children, and its parent_id is the id of its parent, a RecurrentTask
\* with another id.
C8_ChildAttributes ==
    \A c \in Spawned :
        /\ c \in DOMAIN Stored
        /\ DOMAIN Stored[c] \cap {"_recurrence", "_recurrence_type",
                                  "recurrence", "recurrence_type"} = {}
        /\ Stored[c]["type"] = "task"
        /\ Stored[c]["id"] = c
        /\ Stored[c]["parent_id"] \in DOMAIN Stored
        /\ Stored[c]["parent_id"] # c
        /\ IsRecurrentTask(Stored[Stored[c]["parent_id"]])
        /\ Stored[Stored[c]["parent_id"]]["id"] = Stored[c]["parent_id"]

\* The closing of a child has spawned the next child of a parent that has a
\* recurrence and a recurrence_type.
C8_Witness ==
    /\ last.op \in {"do_tasks", "rm_tasks"}
    /\ last.raised = "none"
    /\ \E c \in Spawned :
          /\ Stored[c]["type"] = "task"
          /\ Stored[Stored[c]["parent_id"]]["_recurrence"] \in Recurrences
          /\ Stored[Stored[c]["parent_id"]]["type"] = "recurrent_task"

C10_SpawnedChildIsOpen ==
    \A c \in Spawned :
        /\ Stored[c]["state"] = "open"
        /\ Stored[c]["_closed"] = NoDate

(***************************************************************************)
(* The recurrence policies on their own: breed_children is called once on  *)
(* a parent drawn with its due date, its recurrence, and its children in   *)
(* any order of the list, at a drawn current date.                         *)
(***************************************************************************)
MaxChildren == 2

\* The largest number of months that the properties look ahead.
MaxMonths == 24

DueDates == {datetime(2019, 8, 2), datetime(2019, 8, 31), datetime(2020, 1, 31)}

DueNows == {datetime(2020, 3, 15), datetime(2020, 5, 21), datetime(2020, 6, 2)}

DueRecurrences == {<<"1", "m", "o">>, <<"2", "w">>, <<"1", "r", "m", "o">>}

\* The dates at which the children were closed; an open child has none.
ClosedDates ==
    {datetime(2019, 7, 1), datetime(2020, 1, 31), datetime(2020, 2, 10), NoDate}

\* The lists of children: the ids 2..n+1 in any order.
ChildLists ==
    {children \in UNION {[1..n -> 2..(n + 1)] : n \in 0..MaxChildren} :
        \A i, j \in DOMAIN children : i # j => children[i] # children[j]}

\* A child of the parent 1, closed as completed at the date closed if any.
DueChild(id, due, closed, today) ==
    With([Task(id, [parent_id |-> 1, due |-> due], today).value
              EXCEPT !["parent"] = 1], LAMBDA task :
        IF closed = NoDate THEN task ELSE close(task, "completed", closed, today))

\* The repository that holds the parent 1 and its children.
DueRepository(due, recurrence, recurrence_type, children, closed, today) ==
    [task |->
        (1 :> [RecurrentTask(1, [due |-> due, recurrence |-> recurrence,
                                 recurrence_type |-> recurrence_type],
                             today).value EXCEPT !["children"] = children])
        @@ [id \in Range(children) |-> DueChild(id, due, closed[id], today)],
     project |-> {}, tag |-> {}, fulid |-> Len(children) + 1]

InitDue ==
    /\ now \in DueNows
    /\ import_time = now
    /\ last = NoCall
    /\ \E due \in DueDates, recurrence \in DueRecurrences,
          recurrence_type \in RecurrenceTypes, children \in ChildLists :
          \E closed \in [Range(children) -> ClosedDates] :
              repository = DueRepository(due, recurrence, recurrence_type,
                                         children, closed, now)

\* The parent breeds its next child, which is added to the repository.
BreedChildren ==
    /\ last.op = "none"
    /\ \E outcome \in {spawn_next_child(repository, repository.task[1], now)} :
        /\ repository' = outcome.repo
        /\ last' = [NoCall EXCEPT !.op = "breed_children",
                                  !.raised = outcome.raised,
                                  !.spawned = outcome.spawned]
    /\ UNCHANGED <<now, import_time>>

NextDue == BreedChildren

SpecDue == InitDue /\ [][NextDue]_vars

\* The parent, the children it had before it bred, and the latest of them.
Parent == Stored[1]

PriorChildren == Range(Parent["children"]) \ Spawned

LatestChild == CHOOSE c \in PriorChildren : \A d \in PriorChildren : d <= c

\* breed_children has been called on a recurring parent whose recurrence is
\* one month and whose due date is in the past.
BredMonthly ==
    /\ last.op = "breed_children"
    /\ Parent["_recurrence_type"] = "recurring"
    /\ Parent["_recurrence"] = <<"1", "m", "o">>
    /\ Parent["due"] < now

\* The first date after today of the sequence that starts at date and moves
\* one month forward at a time, looking at most k further months ahead.
RECURSIVE FirstMonthlyDueAfter(_, _, _)
FirstMonthlyDueAfter(date, today, k) ==
    With(add_months(date, 1), LAMBDA next :
        IF next > today \/ k = 0 THEN next
        ELSE FirstMonthlyDueAfter(next, today, k - 1))

\* C1, as it is stated: the child of a recurring parent with the recurrence
\* 1mo and a due date in the past is due at the smallest date due + k months
\* that is after now.
C1_SmallestMultipleAfterNow ==
    BredMonthly =>
        /\ last.raised = "none"
        /\ \E c \in Spawned : \E k \in 0..MaxMonths :
              /\ Stored[c]["due"] = add_months(Parent["due"], k)
              /\ add_months(Parent["due"], k) > now
              /\ \A j \in 0..(k - 1) : add_months(Parent["due"], j) <= now

\* C1, amended: the child is due at the first date after now of the sequence
\* that starts at the due date of the parent and moves one month forward at
\* a time, a step from a day that the next month does not have ending at the
\* last day of that month.
C1_FirstMonthlyDueAfterNow ==
    BredMonthly =>
        /\ last.raised = "none"
        /\ \E c \in Spawned :
              /\ Stored[c]["due"] = FirstMonthlyDueAfter(Parent["due"], now, MaxMonths)
              /\ Stored[c]["due"] > now
              /\ (ord2day(toordinal(Parent["due"])) <= 28
                  => \E k \in 1..MaxMonths :
                        /\ Stored[c]["due"] = add_months(Parent["due"], k)
                        /\ add_months(Parent["due"], k - 1) <= now)

\* The parent due on 2019-08-02 has bred on 2020-05-21 the child due on
\* 2020-06-02.
C1_Witness ==
    /\ BredMonthly
    /\ Parent["due"] = datetime(2019, 8, 2)
    /\ now = datetime(2020, 5, 21)
    /\ \E c \in Spawned : Stored[c]["due"] = datetime(2020, 6, 2)

C3_FirstRepeatingDueIsParentDue ==
    (/\ last.op = "breed_children"
     /\ Parent["_recurrence_type"] = "repeating"
     /\ PriorChildren = {})
    => /\ last.raised = "none"
       /\ \E c \in Spawned : Stored[c]["due"] = Parent["due"]

\* A repeating parent without children, due before now, has bred its first
\* child, due at its own due date.
C3_Witness ==
    /\ last.op = "breed_children"
    /\ Parent["_recurrence_type"] = "repeating"
    /\ Parent["children"] = last.spawned
    /\ Len(last.spawned) = 1
    /\ Parent["due"] < now
    /\ Stored[last.spawned[1]]["due"] = Parent["due"]

(***************************************************************************)
(* add_task on its own, with attributes that the constructors refuse:      *)
(* a recurrent task without a due date, an agile state that is not allowed *)
(***************************************************************************)
\* The number of calls of add_task: each of them draws at least one id.
MaxAddCalls == 2

AddAttributes ==
    {Kw("due", due, NoDate) @@ Kw("agile", agile, "None")
       @@ Kw("project_id", project_id, "None") @@ recurrent :
        due \in {NoDate, Due0},
        agile \in {"None", "todo", "sprint"},
        project_id \in {"None", "pydo"},
        recurrent \in {EmptyDict} \cup
            {[recurrence |-> recurrence, recurrence_type |-> recurrence_type] :
                recurrence \in Recurrences, recurrence_type \in RecurrenceTypes}}

AddAny ==
    /\ repository.fulid < MaxAddCalls
    /\ \E task_attributes \in AddAttributes : AddTask(task_attributes)

\* The agile states that are assigned to a stored task.
AgileStates == {"None", "todo", "doing", "sprint", "done"}

\* task.agile = agile_state on a stored task.
SetAgile ==
    /\ \E id \in DOMAIN repository.task, agile_state \in AgileStates :
        \E outcome \in {agile_setter(repository.task[id], agile_state)} :
            /\ repository' = add(repository, outcome.value)
            /\ last' = [NoCall EXCEPT !.op = "set_agile",
                                      !.task_filter = <<id>>,
                                      !.task_attributes = [agile |-> agile_state],
                                      !.raised = outcome.raised]
    /\ UNCHANGED <<now, import_time>>

NextAdd == AddAny \/ SetAgile

SpecAdd == Init /\ [][NextAdd]_vars

\* This step is a call of add_task for a recurring or repeating task without
\* a due date.
AddsRecurrentWithoutDue ==
    /\ last'.op = "add_task"
    /\ "due" \notin DOMAIN last'.task_attributes
    /\ Arg(last'.task_attributes, "recurrence_type", "None") \in RecurrenceTypes

\* This step leaves the stored tasks, projects and tags as they are.
PersistsNothing ==
    /\ repository'.task = repository.task
    /\ repository'.project = repository.project
    /\ repository'.tag = repository.tag

\* C7, as it is stated: add_task for a recurring or a repeating task without
\* a due date always raises TaskAttributeError, and nothing is persisted.
C7_NullDueRaisesTaskAttributeError ==
    [][AddsRecurrentWithoutDue
       => /\ last'.raised = "TaskAttributeError"
          /\ PersistsNothing]_vars

\* C7, amended: add_task for a recurring or a repeating task without a due
\* date raises TaskAttributeError when the agile state is none or an allowed
\* one and the ValueError of the agile state otherwise; either way nothing
\* is persisted.
C7_NullDueRaisesBeforePersisting ==
    [][AddsRecurrentWithoutDue
       => /\ last'.raised =
                 (IF Arg(last'.task_attributes, "agile", "todo")
                        \in allowed_agile_states
                  THEN "TaskAttributeError" ELSE "ValueError")
          /\ PersistsNothing]_vars

\* After a task was stored, add_task for a repeating task without a due date
\* has raised TaskAttributeError, and the task stored before is the only one.
C7_Witness ==
    /\ last.op = "add_task"
    /\ last.raised = "TaskAttributeError"
    /\ "due" \notin DOMAIN last.task_attributes
    /\ Arg(last.task_attributes, "recurrence_type", "None") = "repeating"
    /\ DOMAIN Stored = {1}
    /\ repository.fulid = 2

(***************************************************************************)
(* The date expression evaluator on its own: convert_date is applied to a  *)
(* drawn expression from the drawn date `now`, and once more from the date *)
(* that it returned.                                                       *)
(***************************************************************************)
\* The reference dates: the days of a week, ends of months, and a date with
\* a time of the day.
DateReferences ==
    {datetime(2020, 1, 6) + d * 86400 : d \in 0..6}
    \cup {datetime(2020, 1, 31), datetime(2021, 1, 31), datetime(2020, 2, 29),
          datetime(2019, 12, 31) + 13 * 3600 + 30 * 60}

\* The names of weekdays.
WeekdayExpressions ==
    {<<"m", "o", "n">>,
     <<"t", "u", "e">>,
     <<"w", "e", "d">>,
     <<"t", "h", "u">>,
     <<"f", "r", "i">>,
     <<"s", "a", "t">>,
     <<"s", "u", "n">>,
     <<"m", "o", "n", "d", "a", "y">>}

\* The offsets made of known units.
OffsetExpressions ==
    {<<"1", "m", "o">>,
     <<"2", "m", "o">>,
     <<"1", "2", "m", "o">>,
     <<"1", "y">>,
     <<"1", "d">>,
     <<"1", "w">>,
     <<"2", "h">>,
     <<"5", "m">>,
     <<"3", "0", "s">>,
     <<"1", "d", " ", "2", "h">>,
     <<"1", "r", "m", "o">>}

\* The offsets with a token that is no integer followed by a known unit.
MalformedExpressions ==
    {<<"1", "x">>,
     <<"x">>,
     <<"1", "d", " ", "x">>,
     <<>>,
     <<"1">>,
     <<"1", "d", " ", " ", "2", "h">>}

\* The dates and the named days.
AbsoluteExpressions ==
    {<<"n", "o", "w">>,
     <<"t", "o", "m", "o", "r", "r", "o", "w">>,
     <<"y", "e", "s", "t", "e", "r", "d", "a", "y">>,
     <<"2", "0", "2", "0", "-", "0", "3", "-", "0", "1">>,
     <<"2", "0", "2", "0", "-", "0", "2", "-", "3", "0">>,
     <<"2", "0", "2", "0", "-", "0", "3", "-", "0", "1", "T", "1", "0", ":", "3", "0">>}

DateExpressions ==
    WeekdayExpressions \cup OffsetExpressions \cup MalformedExpressions
        \cup AbsoluteExpressions

\* A call of convert_date: its arguments, the date it returned (NoDate when
\* it raised) and the expression that gave the starting date, if any.
Converted(human_date, starting_date, previous) ==
    With(convert_date(human_date, starting_date), LAMBDA date :
        [NoCall EXCEPT !.op = "convert_date",
                       !.task_attributes =
                           [human_date |-> human_date,
                            starting_date |-> starting_date,
                            date |-> IF date.raised = "none" THEN date.value ELSE NoDate,
                            previous |-> previous],
                       !.raised = date.raised])

InitDate ==
    /\ now \in DateReferences
    /\ import_time = now
    /\ repository = [task |-> EmptyDict, project |-> {}, tag |-> {}, fulid |-> NoId]
    /\ last = NoCall

ConvertDate ==
    /\ last.op = "none"
    /\ \E human_date \in DateExpressions :
          last' = Converted(human_date, now, NoStr)
    /\ UNCHANGED <<repository, now, import_time>>

\* convert_date is applied to the date that it returned.
ConvertDateAgain ==
    /\ last.op = "convert_date"
    /\ last.raised = "none"
    /\ last.task_attributes.previous = NoStr
    /\ \E human_date \in DateExpressions :
          last' = Converted(human_date, last.task_attributes.date,
                            last.task_attributes.human_date)
    /\ UNCHANGED <<repository, now, import_time>>

NextDate == ConvertDate \/ ConvertDateAgain

SpecDate == InitDate /\ [][NextDate]_vars

\* The last call of convert_date.
Call == last.task_attributes

\* The weekday that a name of a weekday stands for: Monday is 0.
WeekdayNames ==
    <<<<"m", "o", "n">>, <<"t", "u", "e">>, <<"w", "e", "d">>, <<"t", "h", "u">>,
      <<"f", "r", "i">>, <<"s", "a", "t">>, <<"s", "u", "n">>>>

WeekdayNamed(human_date) ==
    (CHOOSE i \in 1..7 : SubSeq(human_date, 1, 3) = WeekdayNames[i]) - 1

MonthOffsets ==
    {[human_date |-> <<"1", "m", "o">>, months |-> 1],
     [human_date |-> <<"2", "m", "o">>, months |-> 2],
     [human_date |-> <<"1", "2", "m", "o">>, months |-> 12],
     [human_date |-> <<"1", "y">>, months |-> 12]}

\* The months since the year 0, and the day of the month, of a date.
MonthIndex(t) == ord2year(toordinal(t)) * 12 + ord2month(toordinal(t)) - 1

DayOfMonth(t) == ord2day(toordinal(t))

\* The day `day` of the month of index `index`, or the last day of that month
\* when it has no such day.
ClampedDay(index, day) ==
    IF day > days_in_month(index \div 12, (index % 12) + 1)
    THEN days_in_month(index \div 12, (index % 12) + 1) ELSE day

\* C12: an offset of N months, or of a year, gives a date in the calendar
\* month N months later, on the same day of the month or on the last day of
\* that month when it is shorter, at the same time of the day: 2020-01-31
\* plus 1mo is 2020-02-29 and 2021-01-31 plus 1mo is 2021-02-28.
C12_MonthOffsetsClamp ==
    \A offset \in MonthOffsets :
        (last.op = "convert_date" /\ Call.human_date = offset.human_date)
        => /\ last.raised = "none"
           /\ MonthIndex(Call.date) = MonthIndex(Call.starting_date) + offset.months
           /\ DayOfMonth(Call.date) =
                  ClampedDay(MonthIndex(Call.date), DayOfMonth(Call.starting_date))
           /\ second_of_day(Call.date) = second_of_day(Call.starting_date)
           /\ (Call.starting_date = datetime(2020, 1, 31) /\ offset.months = 1)
              => Call.date = datetime(2020, 2, 29)
           /\ (Call.starting_date = datetime(2021, 1, 31) /\ offset.months = 1)
              => Call.date = datetime(2021, 2, 28)

\* evaluate("1mo", 2020-01-31) has returned 2020-02-29.
C12_Witness ==
    /\ last.op = "convert_date"
    /\ Call.human_date = <<"1", "m", "o">>
    /\ Call.starting_date = datetime(2020, 1, 31)
    /\ Call.date = datetime(2020, 2, 29)

\* C13: evaluate("1rmo", D) is the date of the month after the month of D
\* that is the same occurrence of the weekday of D in its month as D is in
\* its own: from Sunday 2020-01-12, the second Sunday of January, it is
\* 2020-02-09, and from Tuesday 2020-01-07 it is 2020-02-04.
C13_RelativeMonthSameOccurrence ==
    (last.op = "convert_date" /\ Call.human_date = <<"1", "r", "m", "o">>)
    => /\ last.raised = "none"
       /\ MonthIndex(Call.date) = MonthIndex(Call.starting_date) + 1
       /\ weekday(Call.date) = weekday(Call.starting_date)
       /\ (DayOfMonth(Call.date) - 1) \div 7 = (DayOfMonth(Call.starting_date) - 1) \div 7
       /\ Call.starting_date = datetime(2020, 1, 12) => Call.date = datetime(2020, 2, 9)
       /\ Call.starting_date = datetime(2020, 1, 7) => Call.date = datetime(2020, 2, 4)

\* C14: an offset with a token that is no integer followed by one of the
\* units s, m, h, d, w, mo, y and rmo makes evaluate raise DateParseError,
\* and no date is returned.
C14_MalformedOffsetRaisesDateParseError ==
    (last.op = "convert_date" /\ Call.human_date \in MalformedExpressions)
    => /\ last.raised = "DateParseError"
       /\ Call.date = NoDate

\* The agile states that a task may have.
AgileOrNone == allowed_agile_states \cup {"None"}

\* C15: the assignment of an agile state that is none of backlog, todo,
\* doing, review, complete and null raises ValueError, in the constructor (and
\* then nothing is stored) and in every later assignment, which leaves the
\* agile state of the task as it was; every other assignment takes effect.
C15_AgileIsValidated ==
    [][/\ (last'.op = "add_task"
           /\ Arg(last'.task_attributes, "agile", "None") \notin AgileOrNone)
          => (last'.raised = "ValueError" /\ PersistsNothing)
       /\ last'.op = "set_agile"
          => With(last'.task_filter[1], LAMBDA id :
                IF last'.task_attributes.agile \in AgileOrNone
                THEN /\ last'.raised = "none"
                     /\ repository'.task[id]["_agile"] = last'.task_attributes.agile
                ELSE /\ last'.raised = "ValueError"
                     /\ repository'.task[id] = repository.task[id])
       /\ \A id \in DOMAIN repository'.task :
             repository'.task[id]["_agile"] \in AgileOrNone]_vars

\* The assignment of the agile state sprint to a stored task whose agile
\* state is doing has raised ValueError, and the task is still in doing.
C15_Witness ==
    /\ last.op = "set_agile"
    /\ last.task_attributes.agile = "sprint"
    /\ last.raised = "ValueError"
    /\ Stored[last.task_filter[1]]["_agile"] = "doing"

\* C16: every stored task has a closed date if and only if its state is
\* completed or deleted.
C16_ClosedIffCompletedOrDeleted ==
    \A id \in DOMAIN Stored :
        Stored[id]["_closed"] # NoDate <=> Stored[id]["state"] \in {"completed", "deleted"}

\* C17: closing a child of a RecurrentTask with delete_parent closes the
\* child and its parent with the same state and the same closed date, and
\* spawns no child: the children of the parent and the stored tasks stay the
\* same.
C17_DeleteParentClosesBoth ==
    [][\A c \in DOMAIN Stored :
          (/\ now' = now
           /\ last'.op \in {"do_tasks", "rm_tasks"}
           /\ last'.task_filter = <<c>>
           /\ last'.delete_parent
           /\ IsChild(c))
          => /\ last'.raised = "none"
             /\ last'.spawned = <<>>
             /\ DOMAIN repository'.task = DOMAIN Stored
             /\ repository'.task[Stored[c]["parent_id"]]["children"] =
                    Stored[Stored[c]["parent_id"]]["children"]
             /\ repository'.task[c]["state"] = ClosedAs(last'.op)
             /\ repository'.task[Stored[c]["parent_id"]]["state"] = ClosedAs(last'.op)
             /\ repository'.task[c]["_closed"] # NoDate
             /\ repository'.task[Stored[c]["parent_id"]]["_closed"] =
                    repository'.task[c]["_closed"]]_vars

\* An open child of an open parent has been deleted with delete_parent a day
\* after the import: both are deleted with the same closed date, and the
\* parent has the child as its only child.
C17_Witness ==
    /\ last.op = "rm_tasks"
    /\ last.delete_parent
    /\ last.raised = "none"
    /\ now > import_time
    /\ \E c \in last.open :
          /\ last.task_filter = <<c>>
          /\ Stored[c]["parent_id"] \in last.open
          /\ Stored[c]["state"] = "deleted"
          /\ Stored[Stored[c]["parent_id"]]["state"] = "deleted"
          /\ Stored[Stored[c]["parent_id"]]["_closed"] = Stored[c]["_closed"]
          /\ Stored[Stored[c]["parent_id"]]["children"] = <<c>>

\* C18: closing a task that has no parent with delete_parent raises
\* ValueError, and the task is nevertheless left closed.
C18_ParentlessDeleteParentRaises ==
    \A id \in DOMAIN Stored :
        (/\ last.op \in {"do_tasks", "rm_tasks"}
         /\ last.task_filter = <<id>>
         /\ last.delete_parent
         /\ Stored[id]["type"] = "task"
         /\ Stored[id]["parent_id"] = NoId)
        => /\ last.raised = "ValueError"
           /\ Stored[id]["state"] = ClosedAs(last.op)

(***************************************************************************)
(* do_tasks and rm_tasks with filters made of ids and of attributes        *)
(***************************************************************************)
\* The attributes of the filters: pro:pydo, pro:do, pro:home, state:open,
\* pro:pydo state:open and rec:1d (parsed into recurrence and
\* recurrence_type).
FilterAttributes ==
    {EmptyDict,
     [project_id |-> <<"p", "y", "d", "o">>],
     [project_id |-> <<"d", "o">>],
     [project_id |-> <<"h", "o", "m", "e">>],
     [state |-> <<"o", "p", "e", "n">>],
     [project_id |-> <<"p", "y", "d", "o">>, state |-> <<"o", "p", "e", "n">>],
     [recurrence |-> <<"1", "d">>, recurrence_type |-> "recurring"]}

\* A filter has an id or an attribute.
ParsedFilters ==
    {task_filter \in [task_ids : TaskFilters \cup {<<>>},
                      task_attributes : FilterAttributes] :
        task_filter.task_ids # <<>> \/ DOMAIN task_filter.task_attributes # {}}

CloseFiltered(op, task_filter, close_date_str) ==
    /\ \E outcome \in
           {IF op = "do_tasks"
            THEN do_tasks(repository, task_filter, close_date_str, FALSE,
                          import_time, now)
            ELSE rm_tasks(repository, task_filter, close_date_str, FALSE,
                          import_time, now)} :
        /\ outcome.repo.fulid <= MaxId
        /\ repository' = outcome.repo
        /\ last' = [NoCall EXCEPT !.op = op,
                                  !.task_filter = task_filter.task_ids,
                                  !.task_attributes = task_filter.task_attributes,
                                  !.open = OpenTasks,
                                  !.raised = outcome.raised,
                                  !.spawned = outcome.spawned]
    /\ UNCHANGED <<now, import_time>>

DoFiltered ==
    \E task_filter \in ParsedFilters, close_date_str \in CloseDateStrs :
        CloseFiltered("do_tasks", task_filter, close_date_str)

RmFiltered ==
    \E task_filter \in ParsedFilters, close_date_str \in CloseDateStrs :
        CloseFiltered("rm_tasks", task_filter, close_date_str)

NextFilter == AddSimple \/ AddRecurrent \/ DoFiltered \/ RmFiltered

SpecFilter == Init /\ [][NextFilter]_vars

\* The stored tasks that satisfy every attribute of the filter of the last
\* call: no column is null and each ends with the value that is asked for.
Satisfying(tasks, task_attributes) ==
    {id \in DOMAIN tasks :
        /\ DOMAIN task_attributes # {}
        /\ \A key \in DOMAIN task_attributes :
              /\ key \in MappedAttributes
              /\ tasks[id][key] # "None"
              /\ EndsWith(Characters(tasks[id][key]), task_attributes[key])}

\* C19: do_tasks and rm_tasks raise EntityNotFoundError when the filter
\* matches no task, because of an unknown id or because no task satisfies
\* its attributes, and then no stored task is changed.
C19_NoMatchRaisesEntityNotFound ==
    [][(/\ last'.op \in {"do_tasks", "rm_tasks"}
        /\ \A i \in DOMAIN last'.task_filter :
              last'.task_filter[i] \notin DOMAIN Stored
        /\ Satisfying(Stored, last'.task_attributes) = {})
       => /\ last'.raised = "EntityNotFoundError"
          /\ repository'.task = Stored]_vars

LatestChildClosedFromDue ==
    /\ PriorChildren # {}
    /\ Stored[LatestChild]["_closed"] >= Parent["due"]

LoopDues == {datetime(2020, 1, 6), datetime(2020, 1, 31)}

\* now is an hour before the due date, an hour after it or ten days after it.
LoopDelays == {0 - 3600, 3600, 10 * 86400}

\* The recurrences: names of weekdays, offsets of known units, named days,
\* a date after every now and a date before every now, and offsets whose
\* unit is unknown or missing.
LoopRecurrences ==
    WeekdayExpressions
    \cup {<<"1", "m", "o">>,
          <<"1", "d">>,
          <<"1", "w">>,
          <<"2", "h">>,
          <<"1", "d", " ", "2", "h">>,
          <<"n", "o", "w">>,
          <<"t", "o", "m", "o", "r", "r", "o", "w">>,
          <<"2", "0", "2", "0", "-", "0", "3", "-", "0", "1">>,
          <<"2", "0", "2", "0", "-", "0", "1", "-", "0", "1">>,
          <<"1", "x">>,
          <<"1">>}

InitLoop ==
    /\ last = NoCall
    /\ \E due \in LoopDues, delay \in LoopDelays, recurrence \in LoopRecurrences :
          /\ now = due + delay
          /\ import_time = now
          /\ repository = DueRepository(due, recurrence, "recurring", <<>>,
                                        EmptyDict, now)

\* _next_recurring_due is called on the parent: last_due = self.due.
EnterLoop ==
    /\ last.op = "none"
    /\ last' = [NoCall EXCEPT
                  !.op = "next_recurring_due",
                  !.task_attributes = [last_due |-> repository.task[1]["due"],
                                       next_due |-> NoDate],
                  !.raised = IF repository.task[1]["_recurrence"] = NoStr
                             THEN "ValueError" ELSE "none"]
    /\ UNCHANGED <<repository, now, import_time>>

\* One turn of the loop: the recurrence is applied to last_due; a date after
\* now is returned, another date becomes last_due.  There is no other exit:
\* when the date is last_due again, the turn leaves everything as it was and
\* the loop goes on turning in that state without end.
LoopStep ==
    /\ last.op = "next_recurring_due"
    /\ last.raised = "none"
    /\ last.task_attributes.next_due = NoDate
    /\ \E next_due \in {convert_date(repository.task[1]["_recurrence"],
                                      last.task_attributes.last_due)} :
          last' = IF next_due.raised # "none"
                  THEN [last EXCEPT !.raised = next_due.raised]
                  ELSE IF next_due.value > now
                  THEN [last EXCEPT !.task_attributes.next_due = next_due.value]
                  ELSE [last EXCEPT !.task_attributes.last_due = next_due.value]
    /\ UNCHANGED <<repository, now, import_time>>

NextLoop == EnterLoop \/ LoopStep

\* The interpreter goes on running the loop.
SpecLoop == InitLoop /\ [][NextLoop]_vars /\ WF_vars(NextLoop)

\* The evaluator accepts the recurrence of the parent: it returns a date
\* from the due date of the parent.
RecurrenceAccepted ==
    convert_date(Parent["_recurrence"], Parent["due"]).raised = "none"

\* _next_recurring_due has returned a date after now.
LoopReturned ==
    /\ last.op = "next_recurring_due"
    /\ last.raised = "none"
    /\ last.task_attributes.next_due > now

\* C21: for a recurring parent with a due date and a recurrence that the
\* evaluator accepts, the loop of _next_recurring_due ends: it returns a date
\* after now.
C21_RecurringLoopTerminates == RecurrenceAccepted ~> LoopReturned

(***************************************************************************)
(* close called on an entity: a parent or one of its children, drawn as    *)
(* for breed_children                                                      *)
(***************************************************************************)
\* The close dates: None, and a date that is not now.
EntityCloseDates == {NoDate, datetime(2020, 2, 11)}

\* entity.close(state, close_date) on the stored entity id.
CloseEntity ==
    /\ last.op = "none"
    /\ \E id \in DOMAIN repository.task, state \in {"completed", "deleted"},
          close_date \in EntityCloseDates :
          /\ repository' = add(repository,
                               close(repository.task[id], state, close_date, now))
          /\ last' = [NoCall EXCEPT !.op = "close",
                                    !.task_filter = <<id>>,
                                    !.task_attributes = [state |-> state,
                                                         close_date |-> close_date],
                                    !.open = OpenTasks]
    /\ UNCHANGED <<now, import_time>>

NextClose == CloseEntity

SpecClose == InitDue /\ [][NextClose]_vars

C23_ClosedAtTheTimeOfTheClose ==
    [][\A id \in DOMAIN Stored :
          (/\ now' = now
           /\ last'.op \in {"do_tasks", "rm_tasks"}
           /\ last'.task_filter = <<id>>)
          => repository'.task[id]["_closed"] = now]_vars

(***************************************************************************)
(* breed_children on a parent whose recurrence may be None                 *)
(***************************************************************************)
\* The recurrences: None, and one month.
NullableRecurrences == {NoStr, <<"1", "m", "o">>}

InitNull ==
    /\ now \in DueNows
    /\ import_time = now
    /\ last = NoCall
    /\ \E due \in DueDates, recurrence \in NullableRecurrences,
          recurrence_type \in RecurrenceTypes, children \in ChildLists :
          \E closed \in [Range(children) -> ClosedDates] :
              repository = DueRepository(due, recurrence, recurrence_type,
                                         children, closed, now)

NextNull == BreedChildren

SpecNull == InitNull /\ [][NextNull]_vars

\* C24: breed_children on a parent whose recurrence is None raises
\* ValueError, whether the parent is recurring or repeating and whether it
\* has children or not; no child is made: the children of the parent and
\* the stored tasks stay as they were.
C24_NullRecurrenceRaisesValueError ==
    [][(/\ last'.op = "breed_children"
        /\ Parent["_recurrence"] = NoStr)
       => /\ last'.raised = "ValueError"
          /\ last'.spawned = <<>>
          /\ repository'.task = Stored]_vars

\* breed_children has raised ValueError on a repeating parent without
\* recurrence and without children, which still has no child.
C24_Witness ==
    /\ last.op = "breed_children"
    /\ last.raised = "ValueError"
    /\ Parent["_recurrence"] = NoStr
    /\ Parent["_recurrence_type"] = "repeating"
    /\ Parent["children"] = <<>>
    /\ DOMAIN Stored = {1}

(***************************************************************************)
(* The open children of a parent                                           *)
(***************************************************************************)
\* The children of the parent p that are open.
OpenChildren(p) ==
    {c \in Range(Stored[p]["children"]) : Stored[c]["state"] = "open"}

\* C25: whatever add_task, do_tasks and rm_tasks have been called with,
\* every RecurrentTask has at most one open child.
C25_AtMostOneOpenChild ==
    \A p \in DOMAIN Stored :
        IsRecurrentTask(Stored[p]) => Cardinality(OpenChildren(p)) <= 1

\* C26: whatever add_task, do_tasks and rm_tasks have been called with, no
\* open child has a parent that is completed or deleted.
C26_NoOpenChildOfClosedParent ==
    \A c \in DOMAIN Stored :
        (/\ Stored[c]["state"] = "open"
         /\ Stored[c]["parent_id"] \in DOMAIN Stored)
        => Stored[Stored[c]["parent_id"]]["state"] \notin {"completed", "deleted"}

(***************************************************************************)
(* add_task for recurrent tasks whose recurrence may not be evaluable      *)
(***************************************************************************)
\* The attributes: the recurrence is one day, one relative month, or x,
\* which the evaluator refuses.
FallibleAttributes ==
    {Kw("agile", agile, "None")
       @@ [due |-> Due0, recurrence |-> recurrence,
           recurrence_type |-> recurrence_type] :
        agile \in {"None", "todo"},
        recurrence \in Recurrences \cup {<<"x">>},
        recurrence_type \in RecurrenceTypes}

AddFallible == \E task_attributes \in FallibleAttributes : AddTask(task_attributes)

NextFallible == AddFallible

SpecFallible == Init /\ [][NextFallible]_vars

\* The tasks that this step stores.
Added == DOMAIN repository'.task \ DOMAIN Stored

\* C27: add_task for a recurrent task, whether it returns or raises, stores
\* the parent and its first child, or none of them.
C27_AddRecurrentIsAtomic ==
    [][last'.op = "add_task" =>
        \/ Added = {}
        \/ /\ Cardinality(Added) = 2
           /\ \E p \in Added, c \in Added :
                 /\ IsRecurrentTask(repository'.task[p])
                 /\ repository'.task[c]["parent_id"] = p
                 /\ repository'.task[p]["children"] = <<c>>]_vars

(***************************************************************************)
(* The due dates of the children of a recurring parent                     *)
(***************************************************************************)
\* C28, as it is stated: the children of a recurring parent are due at
\* strictly increasing dates, in the order in which they were spawned.
C28_RecurringDuesStrictlyIncrease ==
    \A p \in DOMAIN Stored :
        (IsRecurrentTask(Stored[p]) /\ Stored[p]["_recurrence_type"] = "recurring")
        => \A i, j \in DOMAIN Stored[p]["children"] :
              i < j => Stored[Stored[p]["children"][i]]["due"]
                           < Stored[Stored[p]["children"][j]]["due"]

\* C28, amended: the child that a close spawns for a recurring parent is
\* never due before a child spawned earlier; it is due strictly later than
\* every earlier child whose due date is not after now, and it is due at the
\* same date as an earlier child whose due date is still after now.
C28_RecurringDuesNeverDecrease ==
    [][(now' = now /\ last'.op \in {"do_tasks", "rm_tasks"})
       => \A c \in Range(last'.spawned) :
             \A p \in {repository'.task[c]["parent_id"]} :
                 (p \in DOMAIN Stored /\ Stored[p]["_recurrence_type"] = "recurring")
                 => \A d \in Range(Stored[p]["children"]) :
                       /\ repository'.task[c]["due"] >= Stored[d]["due"]
                       /\ Stored[d]["due"] <= now
                          => repository'.task[c]["due"] > Stored[d]["due"]
                       /\ (Stored[d]["due"] > now /\ d \in Range(last'.task_filter))
                          => repository'.task[c]["due"] = Stored[d]["due"]]_vars

\* A day after the import, do_tasks on the child 2 of a recurring parent,
\* due that day, has spawned the child 3, due a day later.
C28_Witness ==
    /\ last.op = "do_tasks"
    /\ last.task_filter = <<2>>
    /\ last.spawned = <<3>>
    /\ now > import_time
    /\ Stored[1]["_recurrence_type"] = "recurring"
    /\ Stored[1]["children"] = <<2, 3>>
    /\ Stored[2]["due"] = now
    /\ Stored[3]["due"] = Stored[2]["due"] + 86400

(***************************************************************************)
(* The reference date of the recurrence of a repeating parent              *)
(***************************************************************************)
\* C29: when do_tasks or rm_tasks closes a child of a repeating parent
\* without delete_parent, so that the parent breeds, the child with the
\* highest id among the children of the parent has a closed date, whichever
\* child is closed.
C29_LatestChildIsClosedWhenBreeding ==
    [][\A c \in DOMAIN Stored :
          (/\ now' = now
           /\ last'.op \in {"do_tasks", "rm_tasks"}
           /\ last'.task_filter = <<c>>
           /\ ~last'.delete_parent
           /\ IsChild(c)
           /\ Stored[Stored[c]["parent_id"]]["_recurrence_type"] = "repeating")
          => repository'.task[max_child(Stored[Stored[c]["parent_id"]]["children"])]
                 ["_closed"] # NoDate]_vars

(***************************************************************************)
(* Tasks constructed with the dates closed and created                     *)
(***************************************************************************)
\* The dates that the constructor is given: None, or a date before now.
ClosedArguments == {NoDate, datetime(2020, 1, 20)}

CreatedArguments == {NoDate, datetime(2020, 1, 10)}

\* The attributes of a task, recurrent or not, with or without the dates.
DatedAttributes ==
    {Kw("closed", closed, NoDate) @@ Kw("created", created, NoDate) @@ recurrent :
        closed \in ClosedArguments,
        created \in CreatedArguments,
        recurrent \in {EmptyDict} \cup
            {[due |-> Due0, recurrence |-> <<"1", "d">>,
              recurrence_type |-> recurrence_type] :
                recurrence_type \in RecurrenceTypes}}

AddDated == \E task_attributes \in DatedAttributes : AddTask(task_attributes)

NextDated == AddDated \/ Tick

SpecDated == Init /\ [][NextDated]_vars

\* C30: the task that add_task constructs from its attributes has the
\* closed date and the created date that it was given, no closed date when
\* none was given and now as its created date when none was given; the
\* child that a parent breeds is created now.
C30_ConstructorKeepsClosedAndCreated ==
    [][(last'.op = "add_task" /\ last'.raised = "none")
       => /\ \A id \in Added \ Range(last'.spawned) :
                /\ repository'.task[id]["_closed"] =
                       Arg(last'.task_attributes, "closed", NoDate)
                /\ repository'.task[id]["_created"] =
                       IF "created" \in DOMAIN last'.task_attributes
                       THEN last'.task_attributes["created"] ELSE now
          /\ \A c \in Range(last'.spawned) :
                repository'.task[c]["_created"] = now]_vars

====
